---- MODULE Spec2Model ----
(***************************************************************************)
(* Model of the print-job intake and access-control pipeline of            *)
(* MCP-Network-CUPS: the access policy (validateFilePath), the print_file  *)
(* tool, the upload_and_print tool with its rendering and confirmation     *)
(* gates, and the SSE session registry.                                    *)
(*                                                                         *)
(* Strings the code inspects (paths, filenames) are sequences of           *)
(* one-character strings, so that split, startsWith, extname and           *)
(* toLowerCase are computed as the code computes them.                     *)
(***************************************************************************)
EXTENDS Integers, Sequences, FiniteSets, TLC

VARIABLES
  config,            \* the process-lifetime configuration object
  fsNodes,           \* server filesystem: the real paths that exist
  links,             \* server filesystem: symlink location -> target
  policy,            \* last validateFilePath evaluation
  pf,                \* the print_file invocation
  lprCalls,          \* submissions print_file made to lpr
  up,                \* the upload_and_print invocations
  tmpfs,             \* temporary files and directories on disk
  printJobs,         \* submissions upload_and_print made (executePrintJob)
  conn,              \* the SSE connections
  activeTransports,  \* session registry: session id -> transport
  posts,             \* the response to the latest POST /message
  calls              \* direct calls of helper functions: what each found and did

vars == <<config, fsNodes, links, policy, pf, lprCalls, up, tmpfs, printJobs,
          conn, activeTransports, posts, calls>>

(***************************************************************************)
(* Bounds of the model.                                                    *)
(***************************************************************************)
MaxDepth == 3        \* components of a caller-supplied path
MaxLinkHops == 2     \* symlinks followed before resolution gives up (ELOOP)

(***************************************************************************)
(* Strings.                                                                *)
(***************************************************************************)
sep == "/"

startsWith(s, p) == Len(p) <= Len(s) /\ SubSeq(s, 1, Len(p)) = p

RECURSIVE split(_, _)
split(s, c) ==
  IF \A i \in 1..Len(s) : s[i] # c
  THEN <<s>>
  ELSE LET k == CHOOSE i \in 1..Len(s) :
                  s[i] = c /\ \A j \in 1..(i - 1) : s[j] # c
       IN  <<SubSeq(s, 1, k - 1)>> \o split(SubSeq(s, k + 1, Len(s)), c)

RECURSIVE joinAbs(_)
\* "/" + parts.join("/") for an absolute path; "/" itself for no parts
joinAbs(parts) ==
  IF parts = <<>> THEN <<sep>>
  ELSE IF Len(parts) = 1 THEN <<sep>> \o parts[1]
  ELSE <<sep>> \o parts[1] \o joinAbs(Tail(parts))

RECURSIVE joinRel(_)
joinRel(parts) ==
  IF parts = <<>> THEN <<>>
  ELSE IF Len(parts) = 1 THEN parts[1]
  ELSE parts[1] \o <<sep>> \o joinRel(Tail(parts))

Dot == <<".">>
DotDot == <<".", ".">>

RECURSIVE normalizeParts(_, _)
\* path.resolve's normalisation: empty and "." segments dropped, ".." pops
normalizeParts(parts, acc) ==
  IF parts = <<>> THEN acc
  ELSE LET p == Head(parts) IN
       IF p = <<>> \/ p = Dot THEN normalizeParts(Tail(parts), acc)
       ELSE IF p = DotDot
            THEN normalizeParts(Tail(parts),
                   IF acc = <<>> THEN acc ELSE SubSeq(acc, 1, Len(acc) - 1))
            ELSE normalizeParts(Tail(parts), Append(acc, p))

\* process.cwd() of the server
Cwd == <<sep, "h">>

resolve(p) ==
  LET full == IF startsWith(p, <<sep>>) THEN p ELSE Cwd \o <<sep>> \o p
  IN  joinAbs(normalizeParts(split(full, sep), <<>>))

(***************************************************************************)
(* The server filesystem as realpathSync and access see it.                *)
(***************************************************************************)
Unresolved == "ENOENT"

RECURSIVE walk(_, _, _)
\* follows the components of an absolute path, expanding symlinks
walk(done, rest, hops) ==
  IF rest = <<>> THEN done
  ELSE LET nxt == Append(done, Head(rest)) IN
       IF nxt \in DOMAIN links
       THEN IF hops = 0 THEN Unresolved
            ELSE walk(<<>>, links[nxt] \o Tail(rest), hops - 1)
       ELSE IF nxt \in fsNodes THEN walk(nxt, Tail(rest), hops)
       ELSE Unresolved

\* fs.realpathSync of an absolute, normalised path: the real path, or a throw
realpathSync(abs) ==
  LET r == walk(<<>>, normalizeParts(split(abs, sep), <<>>), MaxLinkHops)
  IN  IF r = Unresolved THEN Unresolved ELSE joinAbs(r)

(***************************************************************************)
(* Access policy (file-security.ts).                                       *)
(***************************************************************************)
pathContainsDotfile(filePath) ==
  LET components == split(filePath, sep)
  IN  \E i \in 1..Len(components) :
        /\ startsWith(components[i], <<".">>)
        /\ components[i] # Dot
        /\ components[i] # DotDot

originalAbsolutePathOf(filePath) == resolve(filePath)

absolutePathOf(filePath) ==
  LET originalAbsolutePath == resolve(filePath)
      real == realpathSync(originalAbsolutePath)
  IN  IF real = Unresolved THEN originalAbsolutePath ELSE real

underRootPrefix(absolutePath, root) ==
  LET resolvedRoot == resolve(root)
  IN  startsWith(absolutePath, resolvedRoot \o <<sep>>) \/ absolutePath = resolvedRoot

\* mutant: the hidden-component check is not repeated on the resolved form
validateFilePath_noResolvedCheck(filePath) ==
  LET originalAbsolutePath == originalAbsolutePathOf(filePath)
      absolutePath == absolutePathOf(filePath)
  IN  IF pathContainsDotfile(originalAbsolutePath) THEN "HiddenOriginal"
      ELSE IF \E i \in 1..Len(config.deniedPaths) :
                 underRootPrefix(absolutePath, config.deniedPaths[i])
           THEN "DeniedAncestor"
      ELSE IF \E i \in 1..Len(config.allowedPaths) :
                 underRootPrefix(absolutePath, config.allowedPaths[i])
           THEN "Allowed"
      ELSE "OutsideAllowlist"

\* mutant: the allowed roots are tested on the unresolved form
validateFilePath_allowOnOriginal(filePath) ==
  LET originalAbsolutePath == originalAbsolutePathOf(filePath)
      absolutePath == absolutePathOf(filePath)
  IN  IF pathContainsDotfile(originalAbsolutePath) THEN "HiddenOriginal"
      ELSE IF pathContainsDotfile(absolutePath) /\ absolutePath # originalAbsolutePath
           THEN "HiddenResolved"
      ELSE IF \E i \in 1..Len(config.deniedPaths) :
                 underRootPrefix(absolutePath, config.deniedPaths[i])
           THEN "DeniedAncestor"
      ELSE IF \E i \in 1..Len(config.allowedPaths) :
                 underRootPrefix(originalAbsolutePath, config.allowedPaths[i])
           THEN "Allowed"
      ELSE "OutsideAllowlist"

validateFilePath(filePath) ==
  LET originalAbsolutePath == originalAbsolutePathOf(filePath)
      absolutePath == absolutePathOf(filePath)
  IN  IF pathContainsDotfile(originalAbsolutePath) THEN "HiddenOriginal"
      ELSE IF pathContainsDotfile(absolutePath) /\ absolutePath # originalAbsolutePath
           THEN "HiddenResolved"
      ELSE IF \E i \in 1..Len(config.deniedPaths) :
                 underRootPrefix(absolutePath, config.deniedPaths[i])
           THEN "DeniedAncestor"
      ELSE IF \E i \in 1..Len(config.allowedPaths) :
                 underRootPrefix(absolutePath, config.allowedPaths[i])
           THEN "Allowed"
      ELSE "OutsideAllowlist"

(***************************************************************************)
(* Configuration and the inputs the model draws.                           *)
(***************************************************************************)
nH == <<"h">>          \* a visible directory (the allowed tree)
nE == <<"e">>          \* a visible directory (the restricted tree)
nS == <<".", "s">>     \* a hidden directory
nL == <<"l">>          \* a name that may be a symlink

RealNames == {nH, nE, nS}
RawNames == {nH, nE, nS, nL, Dot, DotDot}

SeqsUpTo(S, n) == UNION {[1..k -> S] : k \in 0..n}

\* caller-supplied path strings, absolute and relative
RawPaths ==
  {(IF a THEN <<sep>> ELSE <<>>) \o joinRel(cs) :
     a \in BOOLEAN, cs \in SeqsUpTo(RawNames, MaxDepth)}

\* the directory tree, and the symlinks that may sit in it
Tree == SeqsUpTo(RealNames, 2)
NoLinks == [x \in {} |-> <<>>]
LinkChoices ==
  { NoLinks,
    [x \in {<<nH, nL>>} |-> <<nE>>],         \* /h/l -> /e
    [x \in {<<nH, nL>>} |-> <<nH, nS>>],     \* /h/l -> /h/.s
    [x \in {<<nE, nL>>} |-> <<nH>>],         \* /e/l -> /h
    [x \in {<<nH, nL>>} |-> <<nH, nL>>] }    \* /h/l -> /h/l (a loop)

AllowedChoices ==
  { <<>>, <<joinAbs(<<nH>>)>>, <<<<sep>>>>, <<joinAbs(<<nE, nE>>), joinAbs(<<nH>>)>> }
DeniedChoices ==
  { <<>>, <<joinAbs(<<nE>>)>>, <<<<sep>>>>, <<joinAbs(<<nH, nE>>), joinAbs(<<nE>>)>> }

DEFAULT_CUPS_PORT == 631

BaseConfig ==
  [ allowedPaths |-> <<joinAbs(<<nH>>)>>,
    deniedPaths |-> <<joinAbs(<<nE>>)>>,
    maxCopies |-> 0,
    defaultPrinter |-> "",
    upload |-> [blockedExtensions |-> <<<<"s", "h">>>>, maxSize |-> 4],
    confirmIfOverPages |-> 0,
    autoRenderMarkdown |-> TRUE,
    fallbackOnRenderError |-> TRUE,
    cupsServer |-> "",
    cupsPort |-> DEFAULT_CUPS_PORT ]

(***************************************************************************)
(* Idle values of each component, for the specifications that leave it     *)
(* alone.                                                                  *)
(***************************************************************************)
policyIdle == [filePath |-> <<>>, decision |-> "none", again |-> "none"]
pfIdle ==
  [ pc |-> "idle", file_path |-> <<>>, printer |-> "", copies |-> 1, options |-> <<>>,
    exists |-> FALSE,
    result |-> [kind |-> "none", copies |-> 0, max |-> 0, printer |-> ""] ]

PolicyVars == <<policy>>
PrintVars == <<pf, lprCalls>>
UploadVars == <<up, tmpfs, printJobs>>
HttpVars == <<conn, activeTransports, posts>>
EnvVars == <<config, fsNodes, links>>
CallVars == <<calls>>

PrintInitIdle == pf = pfIdle /\ lprCalls = {}
UploadInitIdle == up = <<>> /\ tmpfs = {} /\ printJobs = <<>>
HttpInitIdle == conn = <<>> /\ activeTransports = <<>> /\ posts = <<>>
CallsInitIdle == calls = <<>>

(***************************************************************************)
(* SpecPolicy: evaluations of validateFilePath under every configuration   *)
(* and link structure drawn.                                               *)
(***************************************************************************)
InitPolicy ==
  /\ \E a \in AllowedChoices, d \in DeniedChoices :
       config = [BaseConfig EXCEPT !.allowedPaths = a, !.deniedPaths = d]
  /\ fsNodes = Tree
  /\ links \in LinkChoices
  /\ \E filePath \in RawPaths : policy = [filePath |-> filePath, decision |-> "none", again |-> "none"]
  /\ PrintInitIdle /\ UploadInitIdle /\ HttpInitIdle /\ CallsInitIdle

\* a validateFilePath that remembers the path it judged in the denied roots
ValidateFilePath_remembers ==
  /\ policy.decision = "none"
  /\ policy' = [policy EXCEPT !.decision = validateFilePath(policy.filePath)]
  /\ config' = [config EXCEPT !.deniedPaths = Append(@, originalAbsolutePathOf(policy.filePath))]
  /\ UNCHANGED <<fsNodes, links, CallVars, PrintVars, UploadVars, HttpVars>>

\* the call validateFilePath(policy.filePath)
ValidateFilePath ==
  /\ policy.decision = "none"
  /\ policy' = [policy EXCEPT !.decision = validateFilePath(policy.filePath)]
  /\ UNCHANGED <<EnvVars, CallVars, PrintVars, UploadVars, HttpVars>>

\* a second call validateFilePath(policy.filePath), on the state the first left
ValidateFilePathAgain ==
  /\ policy.decision # "none"
  /\ policy.again = "none"
  /\ policy' = [policy EXCEPT !.again = validateFilePath(policy.filePath)]
  /\ UNCHANGED <<EnvVars, CallVars, PrintVars, UploadVars, HttpVars>>

NextPolicy == ValidateFilePath \/ ValidateFilePathAgain

SpecPolicy == InitPolicy /\ [][NextPolicy]_vars

(***************************************************************************)
(* print_file (tools.ts) and the helpers of utils.ts it calls.             *)
(***************************************************************************)
MaxCopyCount == 3    \* largest copy count a caller asks for
MaxPrintDepth == 2   \* components of a path given to print_file

\* utils.ts fileExists: fs.access(path, F_OK), which follows symlinks
\* (the empty path names no file: ENOENT)
\* mutant: the existence check is skipped
fileExists_always(filePath) == TRUE

fileExists(filePath) == filePath # <<>> /\ realpathSync(resolve(filePath)) # Unresolved

\* mutant: the port is written also when it is the default port
getCupsServerArgs_alwaysPort ==
  IF config.cupsServer = "" THEN <<>>
  ELSE <<"-h", <<config.cupsServer, config.cupsPort>>>>

\* the server address is the pair <<server>> or <<server, port>>
getCupsServerArgs ==
  IF config.cupsServer = "" THEN <<>>
  ELSE <<"-h", IF config.cupsPort # 631
               THEN <<config.cupsServer, config.cupsPort>>
               ELSE <<config.cupsServer>>>>

\* utils.ts getCupsServerDisplay
getCupsServerDisplay ==
  IF config.cupsServer = "" THEN <<"localhost (no MCP_CUPS_SERVER configured)">>
  ELSE IF config.cupsPort # 631 THEN <<config.cupsServer, config.cupsPort>>
  ELSE <<config.cupsServer>>

\* mutant: the maximum is enforced also when it is 0 (unlimited)
copiesOverMaximum_noZeroGuard(copies) == copies > config.maxCopies

\* the copy-count validation of print_file
copiesOverMaximum(copies) == config.maxCopies > 0 /\ copies > config.maxCopies

\* mutant: the configured default is taken before the requested printer
targetPrinterOf_defaultFirst(printer) ==
  IF config.defaultPrinter # "" THEN config.defaultPrinter ELSE printer

targetPrinterOf(printer) == IF printer # "" THEN printer ELSE config.defaultPrinter

\* the argument list handed to lpr; options holds <<>> (undefined) or <<words>>
lprArgs(file_path, printer, copies, options) ==
  [ server |-> getCupsServerArgs,
    P |-> IF targetPrinterOf(printer) # "" THEN <<targetPrinterOf(printer)>> ELSE <<>>,
    copies |-> IF copies > 1 THEN <<copies>> ELSE <<>>,
    o |-> IF options # <<>> /\ options[1] # <<>> THEN options[1] ELSE <<>>,
    file |-> file_path ]

pfResult(kind, copies, max, printer) ==
  [kind |-> kind, copies |-> copies, max |-> max, printer |-> printer]

PrintNames == {nH, nE, nS, nL}
PrintPaths ==
  {(IF a THEN <<sep>> ELSE <<>>) \o joinRel(cs) :
     a \in BOOLEAN, cs \in SeqsUpTo(PrintNames, MaxPrintDepth)}
Printers == {"", "hp"}
OptionInputs == {<<>>, <<<<"landscape">>>>, <<<<"sides=two-sided-long-edge", "media=A4">>>>}

\* the handler is entered and awaits fileExists(file_path)
PrintFileCall(file_path, printer, copies, options) ==
  /\ pf.pc = "idle"
  /\ pf' = [pf EXCEPT !.pc = "awaitExists", !.file_path = file_path,
                      !.printer = printer, !.copies = copies, !.options = options]
  /\ UNCHANGED <<lprCalls, EnvVars, CallVars, PolicyVars, UploadVars, HttpVars>>

\* fileExists answered: not found, or the copies check, or the call of lpr
PrintFileChecked ==
  /\ pf.pc = "awaitExists"
  /\ LET found == fileExists(pf.file_path) IN
     IF ~found
     THEN /\ pf' = [pf EXCEPT !.pc = "returned", !.exists = FALSE,
                      !.result = pfResult("notFound", 0, 0, "")]
          /\ UNCHANGED lprCalls
     ELSE IF copiesOverMaximum(pf.copies)
     THEN /\ pf' = [pf EXCEPT !.pc = "returned", !.exists = TRUE,
                      !.result = pfResult("copiesExceeded", pf.copies, config.maxCopies, "")]
          /\ UNCHANGED lprCalls
     ELSE /\ pf' = [pf EXCEPT !.pc = "awaitLpr", !.exists = TRUE]
          /\ lprCalls' = lprCalls \cup
                {lprArgs(pf.file_path, pf.printer, pf.copies, pf.options)}
  /\ UNCHANGED <<EnvVars, CallVars, PolicyVars, UploadVars, HttpVars>>

\* lpr ended: success, or a failure that the handler reports
PrintFileLprDone(ok) ==
  /\ pf.pc = "awaitLpr"
  /\ pf' = [pf EXCEPT !.pc = "returned",
              !.result = IF ok
                         THEN pfResult("sent", pf.copies, 0,
                                IF targetPrinterOf(pf.printer) # ""
                                THEN targetPrinterOf(pf.printer) ELSE "default printer")
                         ELSE pfResult("failed", 0, 0, "")]
  /\ UNCHANGED <<lprCalls, EnvVars, CallVars, PolicyVars, UploadVars, HttpVars>>

InitPrint ==
  /\ \E m \in 0..2, d \in {"", "dflt"} :
       config = [BaseConfig EXCEPT !.maxCopies = m, !.defaultPrinter = d]
  /\ fsNodes = Tree
  /\ links \in {NoLinks, [x \in {<<nH, nL>>} |-> <<nE>>]}
  /\ policy = policyIdle
  /\ pf = pfIdle /\ lprCalls = {}
  /\ UploadInitIdle /\ HttpInitIdle /\ CallsInitIdle

NextPrint ==
  \/ \E file_path \in PrintPaths, printer \in Printers,
        copies \in 1..MaxCopyCount, options \in OptionInputs :
       PrintFileCall(file_path, printer, copies, options)
  \/ PrintFileChecked
  \/ \E ok \in BOOLEAN : PrintFileLprDone(ok)

SpecPrint == InitPrint /\ [][NextPrint]_vars

(***************************************************************************)
(* upload_and_print (tools/upload-print.ts): validation and intake.        *)
(***************************************************************************)
MaxPages == 5        \* largest page count getPdfPageCount reports

lowerChar(c) ==
  CASE c = "S" -> "s" [] c = "H" -> "h" [] c = "M" -> "m" [] c = "D" -> "d"
    [] OTHER -> c

toLowerCase(s) == [i \in 1..Len(s) |-> lowerChar(s[i])]

endsWith(s, p) == Len(p) <= Len(s) /\ SubSeq(s, Len(s) - Len(p) + 1, Len(s)) = p

RECURSIVE stripTrailingSlashes(_)
stripTrailingSlashes(s) ==
  IF s # <<>> /\ s[Len(s)] = sep THEN stripTrailingSlashes(SubSeq(s, 1, Len(s) - 1)) ELSE s

\* path.extname: from the last "." of the last path segment; "" when there is
\* none, when it is the segment's first character, or when the segment is ".."
extname(path) ==
  LET segs == split(stripTrailingSlashes(path), sep)
      seg == segs[Len(segs)]
      dots == {i \in 1..Len(seg) : seg[i] = "."}
  IN  IF dots = {} THEN <<>>
      ELSE LET d == CHOOSE i \in dots : \A j \in dots : j <= i
           IN  IF d = 1 \/ seg = DotDot THEN <<>> ELSE SubSeq(seg, d, Len(seg))

\* .slice(1)
slice1(s) == IF s = <<>> THEN <<>> ELSE Tail(s)

includes(list, x) == \E i \in 1..Len(list) : list[i] = x

\* mutant: the extension is compared without lowercasing
extensionBlocked_caseSensitive(filename) ==
  includes(config.upload.blockedExtensions, slice1(extname(filename)))

\* validateUploadExtension throws exactly when this holds
extensionBlocked(filename) ==
  includes(config.upload.blockedExtensions, toLowerCase(slice1(extname(filename))))

\* Buffer.byteLength(c, "utf-8") of one character
utf8Width(c) == CASE c = "e-acute" -> 2 [] c = "euro" -> 3 [] OTHER -> 1

RECURSIVE byteLength(_)
byteLength(content) ==
  IF content = <<>> THEN 0 ELSE utf8Width(Head(content)) + byteLength(Tail(content))

\* Math.ceil(n / d) for n >= 0, d > 0
ceilDiv(n, d) == (n + d - 1) \div d

estimatedSize(content, encoding) ==
  IF encoding = "base64" THEN ceilDiv(Len(content) * 3, 4) ELSE byteLength(content)

\* mutant: a size equal to the maximum is refused too
sizeOverMaximum_atLeast(content, encoding) ==
  estimatedSize(content, encoding) >= config.upload.maxSize

\* validateUploadSize throws exactly when this holds
sizeOverMaximum(content, encoding) ==
  estimatedSize(content, encoding) > config.upload.maxSize

(***************************************************************************)
(* Temporary storage.  An entry is a directory (file = <<>>) or a file in  *)
(* it.  mkdtemp returns a name that does not exist; names being            *)
(* interchangeable, the model takes the least free index.                  *)
(***************************************************************************)
tmpDirEntry(owner, n) == [owner |-> owner, id |-> n, file |-> <<>>]
tmpFileEntry(owner, n, name) == [owner |-> owner, id |-> n, file |-> name]

\* mutant: a fixed name instead of a fresh one
freshId_fixed(fs, owner) == 1

freshId(fs, owner) ==
  CHOOSE n \in 1..(Cardinality(fs) + 1) :
    /\ tmpDirEntry(owner, n) \notin fs
    /\ \A m \in 1..(n - 1) : tmpDirEntry(owner, m) \in fs

\* fs.unlinkSync inside try/catch: a failure leaves the file where it is
unlinkSync(fs, f, fails) == IF fails THEN fs ELSE fs \ {f}

\* fs.rmdirSync inside try/catch: fails on a directory that is not empty
rmdirSync(fs, d, fails) ==
  IF fails \/ \E e \in fs : e.owner = d.owner /\ e.id = d.id /\ e.file # <<>>
  THEN fs
  ELSE fs \ {d}

NoFault == [file |-> FALSE, dir |-> FALSE]
Faults == [file : BOOLEAN, dir : BOOLEAN]

\* mutant: the directory is removed before the file, so it is never empty
cleanupUpload_dirFirst(fs, tmpDir, tmpFile, fault) ==
  unlinkSync(rmdirSync(fs, tmpDir, fault.dir), tmpFile, fault.file)

cleanupUpload(fs, tmpDir, tmpFile, fault) ==
  rmdirSync(unlinkSync(fs, tmpFile, fault.file), tmpDir, fault.dir)

\* unlinkSync throws on a missing file or on a failure of the filesystem
unlinkSyncThrows(fs, f, fails) == fails \/ f \notin fs

\* rmdirSync throws on a missing or non-empty directory, or on a failure
rmdirSyncThrows(fs, d, fails) == rmdirSync(fs, d, fails) = fs

\* mutant: the two deletions are not wrapped in try/catch
cleanupUploadRaises_uncaught(fs, tmpDir, tmpFile, fault) ==
  \/ unlinkSyncThrows(fs, tmpFile, fault.file)
  \/ rmdirSyncThrows(unlinkSync(fs, tmpFile, fault.file), tmpDir, fault.dir)

\* whether cleanupUpload throws: each deletion sits in its own try/catch with
\* an empty handler
cleanupUploadRaises(fs, tmpDir, tmpFile, fault) == FALSE

\* utils.ts cleanupRenderedPdf; renderedPdf is <<>> (null) or <<file entry>>
cleanupRenderedPdf(fs, renderedPdf, fault) ==
  IF renderedPdf = <<>> THEN fs
  ELSE rmdirSync(unlinkSync(fs, renderedPdf[1], fault.file),
                 tmpDirEntry("render", renderedPdf[1].id), fault.dir)

(***************************************************************************)
(* upload_and_print: the rendering gate, the confirmation gate, dispatch   *)
(* and cleanup.  An invocation advances from one await to the next; what   *)
(* runs between two awaits is one step.                                    *)
(***************************************************************************)
MARKDOWN_EXTENSIONS == {<<"m", "d">>, <<"m", "a", "r", "k", "d", "o", "w", "n">>}

\* file-security.ts shouldRenderMarkdown
shouldRenderMarkdown(filePath) ==
  IF ~config.autoRenderMarkdown THEN FALSE
  ELSE toLowerCase(slice1(extname(filePath))) \in MARKDOWN_EXTENSIONS

\* mutant: a forced markdown render still asks the automatic setting
shouldRenderAsMarkdown_autoGated(filePath, forceMarkdownRender) ==
  /\ forceMarkdownRender # "false"
  /\ shouldRenderMarkdown(filePath)

\* the markdown decision of prepareUploadedFileForPrinting; an optional boolean
\* is "undefined", "true" or "false"
shouldRenderAsMarkdown(filePath, forceMarkdownRender) ==
  IF forceMarkdownRender # "undefined"
  THEN /\ forceMarkdownRender = "true"
       /\ \E ext \in MARKDOWN_EXTENSIONS : endsWith(toLowerCase(filePath), <<".">> \o ext)
  ELSE shouldRenderMarkdown(filePath)

DuplexWords == {"sides=two-sided-long-edge", "sides=two-sided-short-edge"}

\* utils.ts isDuplexEnabled; options is <<>> (undefined) or <<words>>
isDuplexEnabled(options) ==
  options # <<>> /\ \E k \in 1..Len(options[1]) : options[1][k] \in DuplexWords

\* utils.ts calculatePhysicalSheets
calculatePhysicalSheets(pages, isDuplex) == IF isDuplex THEN ceilDiv(pages, 2) ELSE pages

\* utils.ts shouldTriggerConfirmation
shouldTriggerConfirmation(physicalSheets) ==
  config.confirmIfOverPages > 0 /\ physicalSheets > config.confirmIfOverPages

\* utils.ts executePrintJob refuses a copy count over a non-zero maximum
\* before it submits anything
executePrintJobRefuses(copies) == config.maxCopies > 0 /\ copies > config.maxCopies

noResult ==
  [ kind |-> "none", via |-> "", error |-> "", pages |-> 0, sheets |-> 0,
    threshold |-> 0, duplex |-> FALSE, printerName |-> "", renderType |-> "" ]

upIdle ==
  [ pc |-> "idle",
    filename |-> <<>>, content |-> <<>>, encoding |-> "base64",
    printer |-> "", copies |-> 1, options |-> <<>>,
    skip_confirmation |-> "undefined",
    force_markdown_render |-> "undefined", force_code_render |-> "undefined",
    tmpDir |-> <<>>, tmpFile |-> <<>>, renderedPdf |-> <<>>,
    actualFilePath |-> <<>>, renderType |-> "", pdfPages |-> <<>>,
    created |-> {}, log |-> <<>>, submitted |-> FALSE, deleteFailed |-> FALSE,
    renderFailed |-> FALSE, printOutcome |-> "none", wrote |-> "nothing",
    shouldRenderCodeAnswer |-> "none",
    result |-> noResult ]

logged(u, call) == [u EXCEPT !.log = Append(@, call)]

\* the entries a cleanup call was asked to delete
renderedEntries(u) ==
  IF u.renderedPdf = <<>> THEN {}
  ELSE {u.renderedPdf[1], tmpDirEntry("render", u.renderedPdf[1].id)}
uploadEntries(u) ==
  IF u.tmpDir = <<>> \/ u.tmpFile = <<>> THEN {} ELSE {u.tmpDir[1], u.tmpFile[1]}

\* mutant: the caller is told a fixed text
messageOf_generic(error) == "internal error"

\* error instanceof Error ? error.message : String(error)
messageOf(error) == error

\* the catch block of the handler: conditional cleanup, then the failure text
catchError(u, fs, message, fr, fu) ==
  LET u1 == IF u.renderedPdf # <<>> THEN logged(u, "cleanupRenderedPdf") ELSE u
      fs1 == IF u.renderedPdf # <<>> THEN cleanupRenderedPdf(fs, u.renderedPdf, fr) ELSE fs
      doUpload == u.tmpDir # <<>> /\ u.tmpFile # <<>>
      u2 == IF doUpload THEN logged(u1, "cleanupUpload") ELSE u1
      fs2 == IF doUpload THEN cleanupUpload(fs1, u.tmpDir[1], u.tmpFile[1], fu) ELSE fs1
      escapes == doUpload /\ cleanupUploadRaises(fs1, u.tmpDir[1], u.tmpFile[1], fu)
  IN  [ u |-> [u2 EXCEPT !.pc = "returned",
                 !.deleteFailed = (renderedEntries(u) \cup uploadEntries(u)) \cap fs2 # {},
                 !.result = IF escapes
                            THEN [noResult EXCEPT !.kind = "thrown", !.via = "throw",
                                                  !.error = "deletion error"]
                            ELSE [noResult EXCEPT !.kind = "failed", !.via = "catch",
                                                  !.error = messageOf(message)]],
        fs |-> fs2 ]

\* mutant: the rendered artifact is forgotten
cleanupBoth_uploadOnly(u, fs, fr, fu) ==
  LET fs2 == cleanupUpload(fs, u.tmpDir[1], u.tmpFile[1], fu)
  IN  [ u |-> [logged(u, "cleanupUpload") EXCEPT
                 !.deleteFailed = uploadEntries(u) \cap fs2 # {}],
        fs |-> fs2,
        raised |-> cleanupUploadRaises(fs, u.tmpDir[1], u.tmpFile[1], fu) ]

\* the unconditional cleanup of the try block
cleanupBoth(u, fs, fr, fu) ==
  LET fs1 == cleanupRenderedPdf(fs, u.renderedPdf, fr)
      fs2 == cleanupUpload(fs1, u.tmpDir[1], u.tmpFile[1], fu)
  IN  [ u |-> [logged(logged(u, "cleanupRenderedPdf"), "cleanupUpload") EXCEPT
                 !.deleteFailed = (renderedEntries(u) \cup uploadEntries(u)) \cap fs2 # {}],
        fs |-> fs2,
        raised |-> cleanupUploadRaises(fs1, u.tmpDir[1], u.tmpFile[1], fu) ]

\* "Execute print job": executePrintJob is called and awaited
dispatch(u) ==
  [logged(u, "executePrintJob") EXCEPT
     !.pc = "awaitPrint", !.submitted = ~executePrintJobRefuses(u.copies)]

\* mutant: the gate ignores skip_confirmation
confirmationGateActive_ignoresSkip(skip_confirmation) == config.confirmIfOverPages > 0

\* the guard of the confirmation gate
confirmationGateActive(skip_confirmation) ==
  skip_confirmation # "true" /\ config.confirmIfOverPages > 0

\* after prepareUploadedFileForPrinting returned: the confirmation gate
afterPrepare(u) ==
  IF confirmationGateActive(u.skip_confirmation)
  THEN [logged(u, "getPdfPageCount") EXCEPT !.pc = "awaitPageCount"]
  ELSE dispatch(u)

\* mutant: the code override is looked at before the markdown decision
startPrepare_codeFirst(u) ==
  LET filePath == u.tmpFile[1].file IN
  IF u.force_code_render = "true"
  THEN [logged(u, "renderCodeToPdf") EXCEPT !.pc = "awaitRenderCode"]
  ELSE IF shouldRenderAsMarkdown(filePath, u.force_markdown_render)
  THEN [logged(u, "renderMarkdownToPdf") EXCEPT !.pc = "awaitRenderMd"]
  ELSE IF u.force_code_render = "false"
  THEN afterPrepare(u)
  ELSE [logged(u, "shouldRenderCode") EXCEPT !.pc = "awaitShouldRenderCode"]

\* mutant: the code override is not read, detection is always asked
startPrepare_noCodeOverride(u) ==
  LET filePath == u.tmpFile[1].file IN
  IF shouldRenderAsMarkdown(filePath, u.force_markdown_render)
  THEN [logged(u, "renderMarkdownToPdf") EXCEPT !.pc = "awaitRenderMd"]
  ELSE [logged(u, "shouldRenderCode") EXCEPT !.pc = "awaitShouldRenderCode"]

\* prepareUploadedFileForPrinting up to its first await
startPrepare(u) ==
  LET filePath == u.tmpFile[1].file IN
  IF shouldRenderAsMarkdown(filePath, u.force_markdown_render)
  THEN [logged(u, "renderMarkdownToPdf") EXCEPT !.pc = "awaitRenderMd"]
  ELSE IF u.force_code_render # "undefined"
       THEN IF u.force_code_render = "true"
            THEN [logged(u, "renderCodeToPdf") EXCEPT !.pc = "awaitRenderCode"]
            ELSE afterPrepare(u)
       ELSE [logged(u, "shouldRenderCode") EXCEPT !.pc = "awaitShouldRenderCode"]

\* mutant: no default extension
uploadExt_noDefault(filename) == extname(filename)

\* extname(filename) || ".txt"
uploadExt(filename) ==
  IF extname(filename) # <<>> THEN extname(filename) ELSE <<".", "t", "x", "t">>

\* what writeFileSync is given: the decoded buffer, or the text as UTF-8
writtenAs(encoding) ==
  IF encoding = "base64" THEN "Buffer.from(content, base64)" ELSE "content as utf-8"

\* saveUploadedFile; mkdtempOk and writeOk are what the filesystem answers
saveUploadedFile(u, fs, mkdtempOk, writeOk) ==
  LET ext == uploadExt(u.filename)
      tmpDir == tmpDirEntry("upload", freshId(fs, "upload"))
      tmpFile == tmpFileEntry("upload", tmpDir.id, <<"u", "p", "l", "o", "a", "d">> \o ext)
  IN  IF ~mkdtempOk
      THEN [ok |-> FALSE, u |-> logged(u, "mkdtempSync"), fs |-> fs]
      ELSE IF ~writeOk
      THEN [ ok |-> FALSE,
             u |-> [logged(logged(u, "mkdtempSync"), "writeFileSync") EXCEPT
                      !.created = @ \cup {tmpDir}],
             fs |-> fs \cup {tmpDir} ]
      ELSE [ ok |-> TRUE,
             u |-> [logged(logged(u, "mkdtempSync"), "writeFileSync") EXCEPT
                      !.created = @ \cup {tmpDir, tmpFile},
                      !.tmpDir = <<tmpDir>>, !.tmpFile = <<tmpFile>>,
                      !.wrote = writtenAs(u.encoding),
                      !.actualFilePath = <<tmpFile>>],
             fs |-> fs \cup {tmpDir, tmpFile} ]

\* the arguments once validated and written are not read again
consumed(u) == [u EXCEPT !.content = <<>>, !.encoding = "base64"]

\* mutant: the uploaded file is submitted also when a rendering was produced
jobOf_uploadedFile(i, u) ==
  [ inv |-> i, path |-> u.tmpFile[1], printer |-> u.printer,
    copies |-> u.copies, options |-> u.options ]

jobOf(i, u) ==
  [ inv |-> i, path |-> u.actualFilePath[1], printer |-> u.printer,
    copies |-> u.copies, options |-> u.options ]

\* the effect of a step of invocation i on the shared state
commit(i, r) ==
  /\ up' = [up EXCEPT ![i] = r.u]
  /\ tmpfs' = r.fs
  /\ printJobs' = IF r.u.pc = "awaitPrint" /\ up[i].pc # "awaitPrint" /\ r.u.submitted
                  THEN Append(printJobs, jobOf(i, r.u))
                  ELSE printJobs
  /\ UNCHANGED <<EnvVars, CallVars, PolicyVars, PrintVars, HttpVars>>

\* the tool is called with its arguments
UploadCall(i, req) ==
  /\ up[i].pc = "idle"
  /\ commit(i, [ u |-> [up[i] EXCEPT !.pc = "called", !.filename = req.filename,
                          !.content = req.content, !.encoding = req.encoding,
                          !.printer = req.printer, !.copies = req.copies,
                          !.options = req.options,
                          !.skip_confirmation = req.skip_confirmation,
                          !.force_markdown_render = req.force_markdown_render,
                          !.force_code_render = req.force_code_render],
                 fs |-> tmpfs ])

\* validation, saveUploadedFile and the start of the rendering gate
UploadIntake(i, mkdtempOk, writeOk) ==
  /\ up[i].pc = "called"
  /\ LET u == up[i] IN
     IF extensionBlocked(u.filename)
     THEN commit(i, catchError(u, tmpfs, "extension blocked", NoFault, NoFault))
     ELSE IF sizeOverMaximum(u.content, u.encoding)
     THEN commit(i, catchError(u, tmpfs, "size over maximum", NoFault, NoFault))
     ELSE LET saved == saveUploadedFile(u, tmpfs, mkdtempOk, writeOk) IN
          IF ~saved.ok
          THEN commit(i, catchError(saved.u, saved.fs, "save failed", NoFault, NoFault))
          ELSE commit(i, [u |-> startPrepare(consumed(saved.u)), fs |-> saved.fs])

\* shouldRenderCode answered
ShouldRenderCodeDone(i, answer) ==
  /\ up[i].pc = "awaitShouldRenderCode"
  /\ LET u == [up[i] EXCEPT !.shouldRenderCodeAnswer = IF answer THEN "yes" ELSE "no"] IN
     commit(i, [ u |-> IF answer
                       THEN [logged(u, "renderCodeToPdf") EXCEPT !.pc = "awaitRenderCode"]
                       ELSE afterPrepare(u),
                 fs |-> tmpfs ])

\* mutant: a renderer failure always falls back to the original file
fallbackEnabled_always == TRUE

\* the test of the renderer catch blocks
fallbackEnabled == config.fallbackOnRenderError

\* mutant: the rendered artifact is recorded but the input path is kept
rendererDone_keepsInputPath(i, ok, renderType, fr, fu) ==
  LET u == [up[i] EXCEPT !.renderFailed = ~ok]
      dir == tmpDirEntry("render", freshId(tmpfs, "render"))
      pdf == tmpFileEntry("render", dir.id, <<"o", "u", "t", ".", "p", "d", "f">>)
  IN  IF ok
      THEN commit(i, [ u |-> afterPrepare([u EXCEPT !.renderedPdf = <<pdf>>,
                                              !.renderType = renderType,
                                              !.created = @ \cup {dir, pdf}]),
                       fs |-> tmpfs \cup {dir, pdf} ])
      ELSE IF fallbackEnabled
      THEN commit(i, [u |-> afterPrepare(u), fs |-> tmpfs])
      ELSE commit(i, catchError(u, tmpfs, "render failed", fr, fu))

\* a renderer ended: a rendered artifact, or a failure (fallback or throw)
rendererDone(i, ok, renderType, fr, fu) ==
  LET u == [up[i] EXCEPT !.renderFailed = ~ok]
      dir == tmpDirEntry("render", freshId(tmpfs, "render"))
      pdf == tmpFileEntry("render", dir.id, <<"o", "u", "t", ".", "p", "d", "f">>)
  IN  IF ok
      THEN commit(i, [ u |-> afterPrepare([u EXCEPT !.renderedPdf = <<pdf>>,
                                              !.actualFilePath = <<pdf>>,
                                              !.renderType = renderType,
                                              !.created = @ \cup {dir, pdf}]),
                       fs |-> tmpfs \cup {dir, pdf} ])
      ELSE IF fallbackEnabled
      THEN commit(i, [u |-> afterPrepare(u), fs |-> tmpfs])
      ELSE commit(i, catchError(u, tmpfs, "render failed", fr, fu))

RenderMarkdownDone(i, ok, fr, fu) ==
  /\ up[i].pc = "awaitRenderMd"
  /\ rendererDone(i, ok, "markdown -> PDF", fr, fu)

RenderCodeDone(i, ok, fr, fu) ==
  /\ up[i].pc = "awaitRenderCode"
  /\ rendererDone(i, ok, "code -> PDF (syntax highlighted)", fr, fu)

\* mutant: an unreadable page count is answered with the confirmation notice
onPageCountError_asksConfirmation(u) ==
  [u EXCEPT !.pc = "returned",
            !.result = [noResult EXCEPT !.kind = "confirmation", !.via = "try",
                                        !.threshold = config.confirmIfOverPages]]

\* the inner catch of the confirmation gate: continue with the print
onPageCountError(u) == dispatch(u)

\* mutant: the sheet count is computed without the duplex flag
physicalSheetsOf_noDuplex(options, pdfPages) == calculatePhysicalSheets(pdfPages, FALSE)

\* the sheet count the handler computes from the page count and the options
physicalSheetsOf(options, pdfPages) ==
  calculatePhysicalSheets(pdfPages, isDuplexEnabled(options))

\* getPdfPageCount ended: pages >= 0, or -1 for a throw (not a PDF)
PageCountDone(i, pdfPages, fr, fu) ==
  /\ up[i].pc = "awaitPageCount"
  /\ LET u == IF pdfPages < 0 THEN up[i] ELSE [up[i] EXCEPT !.pdfPages = <<pdfPages>>]
         isDuplex == isDuplexEnabled(u.options)
         physicalSheets == physicalSheetsOf(u.options, pdfPages)
     IN  IF pdfPages < 0
         THEN commit(i, [u |-> onPageCountError(u), fs |-> tmpfs])
         ELSE IF shouldTriggerConfirmation(physicalSheets)
         THEN LET c == cleanupBoth(u, tmpfs, fr, fu) IN
              IF c.raised
              THEN commit(i, [u |-> dispatch(c.u), fs |-> c.fs])
              ELSE
              commit(i, [ u |-> [c.u EXCEPT !.pc = "returned",
                                   !.result = [noResult EXCEPT
                                      !.kind = "confirmation", !.via = "try",
                                      !.pages = pdfPages, !.sheets = physicalSheets,
                                      !.duplex = isDuplex,
                                      !.threshold = config.confirmIfOverPages]],
                          fs |-> c.fs ])
         ELSE commit(i, [u |-> dispatch(u), fs |-> tmpfs])

\* executePrintJob ended
PrintDone(i, ok, fr, fu) ==
  /\ up[i].pc = "awaitPrint"
  /\ ok => up[i].submitted
  /\ LET u == [up[i] EXCEPT !.printOutcome = IF ok THEN "ok" ELSE "failed"] IN
     IF ok
     THEN LET c == cleanupBoth(u, tmpfs, fr, fu) IN
          IF c.raised
          THEN commit(i, catchError(c.u, c.fs, "deletion error", fr, fu))
          ELSE
          commit(i, [ u |-> [c.u EXCEPT !.pc = "returned",
                               !.result = [noResult EXCEPT
                                  !.kind = "printed", !.via = "try",
                                  !.printerName = IF u.printer # "" THEN u.printer
                                                  ELSE "default",
                                  !.renderType = u.renderType]],
                      fs |-> c.fs ])
     ELSE commit(i, catchError(u, tmpfs, "print failed", fr, fu))

(***************************************************************************)
(* SpecUpload: one upload_and_print invocation, under every configuration  *)
(* and every answer of the filesystem, the renderers and the print system. *)
(***************************************************************************)
Filenames ==
  { <<"a", ".", "s", "h">>, <<"a", ".", "S", "H">>, <<"a", ".", "m", "d">>,
    <<"a", ".", "M", "d">>, <<"a", ".", "p", "d", "f">>, <<"a">> }
Contents ==
  { <<"a", "a", "a", "a">>, <<"a", "a", "a", "a", "a">>, <<"a", "e-acute", "euro">> }
Encodings == {"base64", "utf8"}
PrintTargets == {[printer |-> "", copies |-> 1], [printer |-> "hp", copies |-> 2]}
OptBool == {"undefined", "true", "false"}
FaultChoices ==
  {NoFault, [file |-> TRUE, dir |-> FALSE], [file |-> FALSE, dir |-> TRUE]}

request(filename, content, encoding, target, options, skip, fmd, fcr) ==
  [ filename |-> filename, content |-> content, encoding |-> encoding,
    printer |-> target.printer, copies |-> target.copies, options |-> options,
    skip_confirmation |-> skip,
    force_markdown_render |-> fmd, force_code_render |-> fcr ]

SmallContent == <<"a", "a", "a", "a">>
FirstTarget == [printer |-> "", copies |-> 1]

\* requests that vary what validation and intake read
ValidationRequests ==
  { request(f, c, e, FirstTarget, <<>>, "undefined", "undefined", "false") :
      f \in Filenames, c \in Contents, e \in Encodings }
\* requests that vary what the rendering gate reads
RenderRequests ==
  { request(f, SmallContent, "base64", FirstTarget, <<>>, "true", fmd, fcr) :
      f \in {<<"a", ".", "M", "d">>, <<"a", ".", "p", "d", "f">>},
      fmd \in OptBool, fcr \in OptBool }
\* requests that vary what the confirmation gate and the dispatch read
GateRequests ==
  { request(<<"a", ".", "p", "d", "f">>, SmallContent, "base64", t, o, skip,
            "undefined", fcr) :
      t \in PrintTargets, o \in OptionInputs, skip \in OptBool,
      fcr \in {"true", "false"} }
UploadRequests == ValidationRequests \cup RenderRequests \cup GateRequests

PipelineDefaults ==
  [BaseConfig EXCEPT !.confirmIfOverPages = 2, !.fallbackOnRenderError = FALSE]
UploadConfigs ==
  { [PipelineDefaults EXCEPT !.upload = [blockedExtensions |-> b, maxSize |-> m]] :
      b \in {<<>>, <<<<"s", "h">>>>}, m \in {3, 4} }
  \cup
  { [BaseConfig EXCEPT !.confirmIfOverPages = t, !.autoRenderMarkdown = a,
                       !.fallbackOnRenderError = f, !.maxCopies = c] :
      t \in {0, 2}, a \in BOOLEAN, f \in BOOLEAN, c \in {0, 1} }

\* what an earlier invocation may have left in the temporary storage
Leftover ==
  { tmpDirEntry("upload", 1),
    tmpFileEntry("upload", 1, <<"u", "p", "l", "o", "a", "d", ".", "p", "d", "f">>) }

InitUpload ==
  /\ config \in UploadConfigs
  /\ fsNodes = Tree /\ links = NoLinks
  /\ policy = policyIdle
  /\ PrintInitIdle
  /\ up = [i \in {1} |-> upIdle] /\ tmpfs \in {{}, Leftover} /\ printJobs = <<>>
  /\ HttpInitIdle /\ CallsInitIdle

NextUpload ==
  \/ \E i \in DOMAIN up, req \in UploadRequests : UploadCall(i, req)
  \/ \E i \in DOMAIN up, mkdtempOk \in BOOLEAN, writeOk \in BOOLEAN :
       UploadIntake(i, mkdtempOk, writeOk)
  \/ \E i \in DOMAIN up, answer \in BOOLEAN : ShouldRenderCodeDone(i, answer)
  \/ \E i \in DOMAIN up, ok \in BOOLEAN, fr \in FaultChoices, fu \in FaultChoices :
       RenderMarkdownDone(i, ok, fr, fu)
  \/ \E i \in DOMAIN up, ok \in BOOLEAN, fr \in FaultChoices, fu \in FaultChoices :
       RenderCodeDone(i, ok, fr, fu)
  \/ \E i \in DOMAIN up, pdfPages \in -1..MaxPages, fr \in FaultChoices,
        fu \in FaultChoices :
       PageCountDone(i, pdfPages, fr, fu)
  \/ \E i \in DOMAIN up, ok \in BOOLEAN, fr \in FaultChoices, fu \in FaultChoices :
       PrintDone(i, ok, fr, fu)

SpecUpload == InitUpload /\ [][NextUpload]_vars

(***************************************************************************)
(* Vocabulary of the access-policy claims, on path components.             *)
(***************************************************************************)
componentsOf(path) == normalizeParts(split(path, sep), <<>>)

hasHiddenComponent(path) ==
  \E c \in {componentsOf(path)[i] : i \in 1..Len(componentsOf(path))} :
    c[1] = "." /\ c # Dot /\ c # DotDot

\* path equals root or lies below it
equalsOrNestedUnder(path, root) ==
  LET pc == componentsOf(path)
      rc == componentsOf(resolve(root))
  IN  Len(rc) <= Len(pc) /\ SubSeq(pc, 1, Len(rc)) = rc

underSome(path, roots) == \E i \in 1..Len(roots) : equalsOrNestedUnder(path, roots[i])

evaluated == policy.decision # "none"
originalForm == originalAbsolutePathOf(policy.filePath)
realForm == absolutePathOf(policy.filePath)
HiddenDenials == {"HiddenOriginal", "HiddenResolved"}

\* C2: a path with a hidden component in its absolute or in its real form is
\* rejected with the hidden-component denial, whatever the allowed and denied
\* roots are, also under an allowed root.
C2_HiddenComponentDenied ==
  (evaluated /\ (hasHiddenComponent(originalForm) \/ hasHiddenComponent(realForm)))
    => policy.decision \in HiddenDenials

\* C2 witness: a visible path under an allowed root whose real form is hidden
\* has been rejected.
C2_Witness ==
  /\ policy.decision = "HiddenResolved"
  /\ ~hasHiddenComponent(originalForm)
  /\ hasHiddenComponent(realForm)
  /\ underSome(originalForm, config.allowedPaths)
  /\ underSome(realForm, config.allowedPaths)

\* C3: a path with no hidden component whose real form equals a denied root or
\* is nested under one is rejected as denied ancestor, also when it is under an
\* allowed root.
C3_DeniedAncestorDenied ==
  ( /\ evaluated
    /\ ~hasHiddenComponent(originalForm)
    /\ ~hasHiddenComponent(realForm)
    /\ underSome(realForm, config.deniedPaths) )
    => policy.decision = "DeniedAncestor"

\* C4 (acceptance condition): a path is accepted only if it has no hidden
\* component, is under no denied root and is under at least one allowed root.
C4_AcceptedOnlyIf ==
  policy.decision = "Allowed" =>
    /\ ~hasHiddenComponent(originalForm)
    /\ ~hasHiddenComponent(realForm)
    /\ ~underSome(realForm, config.deniedPaths)
    /\ underSome(realForm, config.allowedPaths)

(***************************************************************************)
(* Claims on print_file.                                                   *)
(***************************************************************************)
\* C7: print_file makes a print submission only for a path the access policy
\* allows; no submission is made for a path validateFilePath would deny.
C7_SubmissionOnlyIfAllowed ==
  \A a \in lprCalls : validateFilePath(a.file) = "Allowed"

overConfiguredMaximum == config.maxCopies > 0 /\ pf.copies > config.maxCopies

\* C8 as claimed: a returned request was rejected for its copy count exactly
\* when the maximum is above 0 and copies is above the maximum.
C8_RejectedExactlyWhenOver ==
  pf.pc = "returned" => (pf.result.kind = "copiesExceeded" <=> overConfiguredMaximum)

\* C8 amended: for a request whose file exists, the rejection for the copy
\* count happens exactly when maximum > 0 and copies > maximum; a request over
\* the maximum never reaches lpr, the failure reports the configured maximum,
\* and with maximum 0 no copy count is rejected.
C8_CopiesValidation ==
  /\ (pf.pc = "returned" /\ pf.exists) =>
       (pf.result.kind = "copiesExceeded" <=> overConfiguredMaximum)
  /\ (pf.pc # "idle" /\ overConfiguredMaximum) => lprCalls = {}
  /\ pf.result.kind = "copiesExceeded" =>
       /\ lprCalls = {}
       /\ pf.result.max = config.maxCopies
       /\ pf.result.copies = pf.copies
  /\ config.maxCopies = 0 => pf.result.kind # "copiesExceeded"

\* C8 witness: an existing file asked in more copies than the maximum allows
\* has been rejected, and a request of exactly the maximum went to lpr.
C8_Witness ==
  /\ pf.pc = "returned" /\ pf.exists
  /\ pf.result.kind = "copiesExceeded"
  /\ config.maxCopies = 2 /\ pf.copies = 3

(***************************************************************************)
(* HTTP/SSE transport: the session registry and the two handlers.          *)
(***************************************************************************)
NumConns == 2
NumIds == 2

Conns == 1..NumConns
SessionIds == 1..NumIds
NoHeader == 0
Headers == 0..(NumIds + 1)
NoTransport == 0

connNew == [pc |-> "new", closed |-> FALSE, sessionId |-> 0, received |-> {}]
noPost == [header |-> NoHeader, status |-> 0, transport |-> NoTransport]

\* mutant: the entry is left in the registry
mapDelete_keeps(m, sessionId) == m

\* mutant: the transport is not put in the registry
mapSet_skips(m, sessionId, transport) == m

\* Map.set and Map.delete on the registry
mapSet(m, sessionId, transport) == [m EXCEPT ![sessionId] = transport]
mapDelete(m, sessionId) == [m EXCEPT ![sessionId] = NoTransport]

\* mutant: the lookup ignores the identifier and takes a registered transport
transportFor_anyRegistered(sessionId) ==
  LET registered == {activeTransports[k] : k \in SessionIds} \ {NoTransport}
  IN  IF registered = {} THEN NoTransport ELSE CHOOSE t \in registered : TRUE

\* activeTransports.get(sessionId)
transportFor(sessionId) ==
  IF sessionId \in SessionIds THEN activeTransports[sessionId] ELSE NoTransport

\* GET /sse up to the await: the transport is registered under a generated id
SseOpen(c, sessionId) ==
  /\ conn[c].pc = "new"
  /\ activeTransports' = mapSet(activeTransports, sessionId, c)
  /\ conn' = [conn EXCEPT ![c].pc = "connecting", ![c].sessionId = sessionId]
  /\ UNCHANGED <<posts, EnvVars, CallVars, PolicyVars, PrintVars, UploadVars>>

\* mcpServer.connect(transport) ended
ConnectDone(c, ok) ==
  /\ conn[c].pc = "connecting"
  /\ IF ok
     THEN /\ conn' = [conn EXCEPT ![c].pc = "connected"]
          /\ UNCHANGED activeTransports
     ELSE /\ conn' = [conn EXCEPT ![c].pc = "failed"]
          /\ activeTransports' = mapDelete(activeTransports, conn[c].sessionId)
  /\ UNCHANGED <<posts, EnvVars, CallVars, PolicyVars, PrintVars, UploadVars>>

\* the "close" listener of the response
SseClose(c) ==
  /\ conn[c].pc # "new"
  /\ ~conn[c].closed
  /\ conn' = [conn EXCEPT ![c].closed = TRUE]
  /\ activeTransports' = mapDelete(activeTransports, conn[c].sessionId)
  /\ UNCHANGED <<posts, EnvVars, CallVars, PolicyVars, PrintVars, UploadVars>>

\* mutant: the header test is dropped
headerMissing_never(header) == FALSE

\* !sessionId
headerMissing(header) == header = NoHeader

\* POST /message
PostMessage(header, throws) ==
  LET transport == transportFor(header) IN
  /\ IF headerMissing(header)
     THEN /\ posts' = [header |-> header, status |-> 400, transport |-> NoTransport]
          /\ UNCHANGED conn
     ELSE IF transport = NoTransport
     THEN /\ posts' = [header |-> header, status |-> 404, transport |-> NoTransport]
          /\ UNCHANGED conn
     ELSE /\ posts' = [header |-> header, status |-> IF throws THEN 500 ELSE 202,
                       transport |-> transport]
          /\ conn' = [conn EXCEPT ![transport].received = @ \cup {header}]
  /\ UNCHANGED <<activeTransports, EnvVars, CallVars, PolicyVars, PrintVars, UploadVars>>

InitHttp ==
  /\ config = BaseConfig
  /\ fsNodes = Tree
  /\ links = NoLinks
  /\ policy = policyIdle
  /\ PrintInitIdle /\ UploadInitIdle
  /\ conn = [c \in Conns |-> connNew]
  /\ activeTransports = [k \in SessionIds |-> NoTransport]
  /\ posts = noPost
  /\ CallsInitIdle

NextHttp ==
  \/ \E c \in Conns, sessionId \in SessionIds : SseOpen(c, sessionId)
  \/ \E c \in Conns, ok \in BOOLEAN : ConnectDone(c, ok)
  \/ \E c \in Conns : SseClose(c)
  \/ \E header \in Headers, throws \in BOOLEAN : PostMessage(header, throws)

SpecHttp == InitHttp /\ [][NextHttp]_vars

\* C6: a transport only ever receives messages that carry the identifier it
\* was registered under; with two sessions under different identifiers, a
\* message carrying one's identifier never reaches the other's transport.
C6_MessageReachesOwnTransport ==
  /\ \A c \in Conns : \A h \in conn[c].received : h = conn[c].sessionId
  /\ posts.transport # NoTransport =>
       conn[posts.transport].sessionId = posts.header
  /\ \A a \in Conns, b \in Conns :
       (a # b /\ conn[a].sessionId # conn[b].sessionId)
         => conn[b].sessionId \notin conn[a].received

\* C6 witness: A and B are registered at the same time under different
\* identifiers and the latest message, carrying B's, was handed to B.
C6_Witness ==
  /\ conn[1].pc # "new" /\ conn[2].pc # "new"
  /\ conn[1].sessionId # conn[2].sessionId
  /\ activeTransports[conn[1].sessionId] = 1
  /\ activeTransports[conn[2].sessionId] = 2
  /\ posts = [header |-> conn[2].sessionId, status |-> 202, transport |-> 2]
  /\ conn[1].received # {}

(***************************************************************************)
(* Claims on upload_and_print.                                             *)
(***************************************************************************)
returned(i) == up[i].pc = "returned"
leftBy(i) == up[i].created \cap tmpfs
called(i, name) == \E k \in 1..Len(up[i].log) : up[i].log[k] = name

\* C1: when the handler returns, on every exit path, every temporary file and
\* directory the invocation created has been deleted (stated for the runs in
\* which no deletion the handler attempted failed).
C1_NothingLeftAtReturn ==
  \A i \in DOMAIN up : (returned(i) /\ ~up[i].deleteFailed) => leftBy(i) = {}

ValidationErrors == {"extension blocked", "size over maximum"}

\* C5: when the lowercased extension of the filename is blocked, or the
\* estimated size is over the maximum, the invocation fails with a validation
\* error and has created no temporary directory or file.
C5_ValidationBeforeIntake ==
  [][\A i \in DOMAIN up :
       ( /\ up[i].pc = "called"
         /\ up'[i].pc # "called"
         /\ \/ includes(config.upload.blockedExtensions,
                        toLowerCase(slice1(extname(up[i].filename))))
            \/ estimatedSize(up[i].content, up[i].encoding) > config.upload.maxSize )
       => /\ up'[i].pc = "returned"
          /\ up'[i].result.kind = "failed"
          /\ up'[i].result.error \in ValidationErrors
          /\ up'[i].created = {}
          /\ up'[i].log = <<>>
          /\ tmpfs' = tmpfs
          /\ printJobs' = printJobs]_vars

\* C5 witness: an upper-case blocked extension has been refused with nothing
\* on disk.
C5_Witness ==
  /\ returned(1)
  /\ up[1].result.error = "extension blocked"
  /\ up[1].filename = <<"a", ".", "S", "H">>
  /\ tmpfs = {}

hasDuplexOption(options) ==
  options # <<>> /\ \E k \in 1..Len(options[1]) : options[1][k] \in DuplexWords

sheetsFor(pages, options) ==
  IF hasDuplexOption(options)
  THEN CHOOSE k \in 0..pages : 2 * k >= pages /\ 2 * (k - 1) < pages
  ELSE pages

\* C9: with skip_confirmation not set and a threshold T > 0, once the page
\* count P has been read the invocation ends in the confirmation notice exactly
\* when sheets > T (sheets = P, or ceil(P / 2) with a duplex option); with
\* sheets <= T it goes on to executePrintJob.  The notice carries sheets and T.
C9_ConfirmationThreshold ==
  \A i \in DOMAIN up :
    ( /\ up[i].skip_confirmation # "true"
      /\ config.confirmIfOverPages > 0
      /\ up[i].pdfPages # <<>> )
    => LET sheets == sheetsFor(up[i].pdfPages[1], up[i].options) IN
       /\ sheets > config.confirmIfOverPages =>
            /\ returned(i)
            /\ up[i].result.kind = "confirmation"
            /\ up[i].result.sheets = sheets
            /\ up[i].result.threshold = config.confirmIfOverPages
            /\ ~called(i, "executePrintJob")
       /\ sheets <= config.confirmIfOverPages =>
            /\ up[i].result.kind # "confirmation"
            /\ called(i, "executePrintJob")

\* C9 witness: a duplex job of exactly threshold sheets went on to dispatch.
C9_Witness ==
  /\ config.confirmIfOverPages = 2
  /\ up[1].pdfPages = <<4>>
  /\ hasDuplexOption(up[1].options)
  /\ up[1].pc = "awaitPrint"

\* C10: an invocation that ends in the confirmation notice returns it from the
\* try block (not as an error), after cleanupRenderedPdf and cleanupUpload were
\* called, with its artifacts gone, and never reached executePrintJob.
C10_ConfirmationStopsBeforeDispatch ==
  \A i \in DOMAIN up :
    up[i].result.kind = "confirmation" =>
      /\ returned(i)
      /\ up[i].result.via = "try"
      /\ ~called(i, "executePrintJob")
      /\ ~up[i].submitted
      /\ \A k \in 1..Len(printJobs) : printJobs[k].inv # i
      /\ Len(up[i].log) >= 2
      /\ SubSeq(up[i].log, Len(up[i].log) - 1, Len(up[i].log))
           = <<"cleanupRenderedPdf", "cleanupUpload">>
      /\ ~up[i].deleteFailed => leftBy(i) = {}

\* C10 witness: a rendered upload over the threshold ended in the notice with
\* nothing left on disk.
C10_Witness ==
  /\ up[1].result.kind = "confirmation"
  /\ up[1].renderedPdf # <<>>
  /\ tmpfs = {}

\* the gate is switched off for invocation i
gateOff(i) == up[i].skip_confirmation = "true" \/ config.confirmIfOverPages = 0

PreDispatchErrors ==
  {"extension blocked", "size over maximum", "save failed", "render failed"}
BeforeGate == {"idle", "called", "awaitShouldRenderCode", "awaitRenderMd", "awaitRenderCode"}

\* C11: with skip_confirmation set, or a threshold of 0, the invocation never
\* calls getPdfPageCount and never ends in the confirmation notice; once
\* validation, intake and rendering are behind it without an error, it has
\* called executePrintJob.
C11_GateOffGoesToDispatch ==
  \A i \in DOMAIN up :
    gateOff(i) =>
      /\ ~called(i, "getPdfPageCount")
      /\ up[i].pdfPages = <<>>
      /\ up[i].pc # "awaitPageCount"
      /\ up[i].result.kind # "confirmation"
      /\ (up[i].pc \notin BeforeGate /\ up[i].result.error \notin PreDispatchErrors)
           => called(i, "executePrintJob")

\* C11 witness: with a threshold above 0 and skip_confirmation set, a rendered
\* upload is at executePrintJob and its job has been submitted.
C11_Witness ==
  /\ config.confirmIfOverPages > 0
  /\ up[1].skip_confirmation = "true"
  /\ up[1].renderedPdf # <<>>
  /\ up[1].pc = "awaitPrint"
  /\ Len(printJobs) = 1

jobsOf(i) == {printJobs[k] : k \in {n \in 1..Len(printJobs) : printJobs[n].inv = i}}

\* C12: after the chosen renderer failed, with fallback-on-render-error the
\* invocation goes on with the uploaded file (no rendered artifact, empty
\* render kind, any job carries the uploaded file); without it the invocation
\* fails with the render error and neither calls executePrintJob nor submits.
C12_RenderFailurePolicy ==
  \A i \in DOMAIN up :
    up[i].renderFailed =>
      IF config.fallbackOnRenderError
      THEN /\ up[i].renderedPdf = <<>>
           /\ up[i].renderType = ""
           /\ up[i].actualFilePath = up[i].tmpFile
           /\ up[i].pc \in {"awaitPageCount", "awaitPrint", "returned"}
           /\ up[i].result.error # "render failed"
           /\ up[i].result.renderType = ""
           /\ \A j \in jobsOf(i) : <<j.path>> = up[i].tmpFile
      ELSE /\ up[i].pc = "returned"
           /\ up[i].result.kind = "failed"
           /\ up[i].result.error = "render failed"
           /\ ~called(i, "executePrintJob")
           /\ ~up[i].submitted
           /\ jobsOf(i) = {}

\* C12 witness: the markdown renderer failed, fallback is enabled, and the
\* uploaded markdown file itself has been printed.
C12_Witness ==
  /\ config.fallbackOnRenderError
  /\ up[1].renderFailed
  /\ called(1, "renderMarkdownToPdf")
  /\ up[1].result.kind = "printed"
  /\ jobsOf(1) # {}

(***************************************************************************)
(* Claims on the POST /message handler.                                    *)
(***************************************************************************)
registered(h) == h \in SessionIds /\ activeTransports[h] # NoTransport

\* C13: a POST without identifier is answered 400 and one with an identifier
\* that is not registered 404, neither reaching any transport; a POST whose
\* transport throws is answered 500 and leaves the registry and every
\* connection as they were, apart from the message the transport was handed.
C13_PostErrors ==
  [][posts' # posts =>
       LET h == posts'.header IN
       /\ h = NoHeader => (posts'.status = 400 /\ posts'.transport = NoTransport
                           /\ conn' = conn)
       /\ (h # NoHeader /\ ~registered(h)) =>
            (posts'.status = 404 /\ posts'.transport = NoTransport /\ conn' = conn)
       /\ posts'.status \in {400, 404} => (h = NoHeader \/ ~registered(h))
       /\ posts'.status = 500 =>
            /\ registered(h)
            /\ posts'.transport = activeTransports[h]
            /\ activeTransports' = activeTransports
            /\ \A c \in Conns : /\ conn'[c].pc = conn[c].pc
                                /\ conn'[c].closed = conn[c].closed
                                /\ conn'[c].sessionId = conn[c].sessionId]_vars

\* C13 witness: a transport threw on a message and the answer was 500, with
\* the session still registered.
C13_Witness ==
  /\ posts.status = 500
  /\ registered(posts.header)
  /\ activeTransports[posts.header] = posts.transport

\* the identifier of connection c was generated for no other connection
ownIdentifier(c) == \A d \in Conns \ {c} : conn[d].sessionId # conn[c].sessionId

\* C14: once the close event of a connection has been handled, its transport
\* is handed no further message, and a POST carrying its identifier (an
\* identifier generated for that connection only) is answered 404 and changes
\* nothing else: it is not kept for a later delivery.
C14_ClosedSessionNotFound ==
  [][\A c \in Conns :
       conn[c].closed =>
         /\ conn'[c].received = conn[c].received
         /\ posts'.transport # c \/ posts' = posts
         /\ (posts' # posts /\ posts'.header = conn[c].sessionId /\ ownIdentifier(c))
              => /\ posts'.status = 404
                 /\ conn' = conn
                 /\ activeTransports' = activeTransports]_vars

\* C14 witness: a session that had received a message was closed, another
\* session is still registered, and a POST with the closed session's
\* identifier got 404.
C14_Witness ==
  /\ conn[1].closed /\ conn[1].received # {}
  /\ conn[2].pc = "connected" /\ ~conn[2].closed
  /\ conn[2].sessionId # conn[1].sessionId
  /\ posts = [header |-> conn[1].sessionId, status |-> 404, transport |-> NoTransport]

(***************************************************************************)
(* SpecCleanup: cleanupUpload called directly, several times, on one       *)
(* (directory, file) pair, on every state of the temporary storage.        *)
(***************************************************************************)
MaxCleanupCalls == 3

PairDir == tmpDirEntry("upload", 1)
PairFile == tmpFileEntry("upload", 1, <<"u", "p", "l", "o", "a", "d", ".", "t", "x", "t">>)
StrayFile == tmpFileEntry("upload", 1, <<"x">>)
OtherDir == tmpDirEntry("upload", 2)
OtherFile == tmpFileEntry("upload", 2, <<"u", "p", "l", "o", "a", "d", ".", "t", "x", "t">>)

\* the storage states a call can find: a file only inside its directory
StorageStates ==
  { fs \in SUBSET {PairDir, PairFile, StrayFile, OtherDir, OtherFile} :
      \A e \in fs : e.file # <<>> => tmpDirEntry(e.owner, e.id) \in fs }

CleanupUploadCall(fault) ==
  /\ Len(calls) < MaxCleanupCalls
  /\ tmpfs' = cleanupUpload(tmpfs, PairDir, PairFile, fault)
  /\ calls' = Append(calls,
       [ before |-> tmpfs,
         after |-> cleanupUpload(tmpfs, PairDir, PairFile, fault),
         raised |-> cleanupUploadRaises(tmpfs, PairDir, PairFile, fault),
         fault |-> fault ])
  /\ UNCHANGED <<EnvVars, PolicyVars, PrintVars, HttpVars, up, printJobs>>

InitCleanup ==
  /\ config = BaseConfig
  /\ fsNodes = Tree
  /\ links = NoLinks
  /\ policy = policyIdle
  /\ PrintInitIdle /\ HttpInitIdle
  /\ up = <<>> /\ printJobs = <<>>
  /\ tmpfs \in StorageStates
  /\ calls = <<>>

NextCleanup == \E fault \in Faults : CleanupUploadCall(fault)

SpecCleanup == InitCleanup /\ [][NextCleanup]_vars

\* C15 as claimed: no call raises; a second call on the pair, and a call that
\* finds the file or the directory of the pair already gone, leaves the
\* storage unchanged.
C15_RepeatOrMissingLeavesUnchanged ==
  \A k \in 1..Len(calls) :
    /\ ~calls[k].raised
    /\ (k >= 2 \/ PairFile \notin calls[k].before \/ PairDir \notin calls[k].before)
         => calls[k].after = calls[k].before

\* C15 amended: no call raises, whatever is missing; a call removes nothing
\* but the file and the directory of the pair; a call that follows a call made
\* under the same deletion failures, and a call that finds the directory of
\* the pair gone, leave the storage unchanged; a call that finds only the file
\* gone and the directory empty removes the directory.
C15_CleanupTotalAndIdempotent ==
  \A k \in 1..Len(calls) :
    /\ ~calls[k].raised
    /\ calls[k].after \subseteq calls[k].before
    /\ calls[k].before \ calls[k].after \subseteq {PairDir, PairFile}
    /\ (k >= 2 /\ calls[k].fault = calls[k - 1].fault)
         => calls[k].after = calls[k].before
    /\ PairDir \notin calls[k].before => calls[k].after = calls[k].before
    /\ ( /\ calls[k].fault = NoFault
         /\ \A e \in calls[k].before : e.id = PairDir.id => e = PairDir )
         => PairDir \notin calls[k].after

\* C15 witness: the pair was deleted by a first call, and a second call found
\* both gone and changed nothing; another directory was left alone.
C15_Witness ==
  /\ Len(calls) = 2
  /\ {PairDir, PairFile, OtherDir, OtherFile} \subseteq calls[1].before
  /\ calls[1].after = {OtherDir, OtherFile}
  /\ calls[2].before = calls[1].after
  /\ calls[2].after = calls[2].before
  /\ unlinkSyncThrows(calls[2].before, PairFile, FALSE)

\* C16: whatever deletion fails during cleanup, a returned invocation whose
\* submission succeeded reports the print, one whose submission failed
\* reports that failure, and no result carries a deletion error.
C16_DeletionNeverMasksResult ==
  \A i \in DOMAIN up :
    returned(i) =>
      /\ up[i].printOutcome = "ok" => up[i].result.kind = "printed"
      /\ up[i].printOutcome = "failed" =>
           (up[i].result.kind = "failed" /\ up[i].result.error = "print failed")
      /\ up[i].result.error # "deletion error"
      /\ up[i].result.kind # "thrown"

\* C16 witness: the submission succeeded, a deletion failed and left an
\* artifact behind, and the result is the print.
C16_Witness ==
  /\ returned(1)
  /\ up[1].printOutcome = "ok"
  /\ up[1].deleteFailed
  /\ leftBy(1) # {}
  /\ up[1].result.kind = "printed"

\* the estimate as the claim words it
ceilThreeQuarters(n) == CHOOSE k \in 0..n : 4 * k >= 3 * n /\ 4 * (k - 1) < 3 * n
utf8Bytes(content) ==
  Len(content) + Cardinality({k \in 1..Len(content) : content[k] = "e-acute"})
               + 2 * Cardinality({k \in 1..Len(content) : content[k] = "euro"})
claimedEstimate(content, encoding) ==
  IF encoding = "base64" THEN ceilThreeQuarters(Len(content)) ELSE utf8Bytes(content)

\* C17: for an upload whose extension is not blocked, the size validation
\* refuses exactly when the estimate is strictly above the maximum, the
\* estimate being ceil(length * 3 / 4) for base64 and the UTF-8 byte length
\* for text; an estimate equal to the maximum passes.
C17_SizeRejectedExactlyWhenOver ==
  [][\A i \in DOMAIN up :
       ( /\ up[i].pc = "called"
         /\ up'[i].pc # "called"
         /\ ~includes(config.upload.blockedExtensions,
                      toLowerCase(slice1(extname(up[i].filename)))) )
       => ( up'[i].result.error = "size over maximum"
            <=> claimedEstimate(up[i].content, up[i].encoding)
                  > config.upload.maxSize )]_vars

\* C17 witness: a text of three characters and six bytes was refused under a
\* maximum of four.
C17_Witness ==
  /\ returned(1)
  /\ up[1].result.error = "size over maximum"
  /\ up[1].encoding = "utf8"
  /\ Len(up[1].content) < config.upload.maxSize
  /\ claimedEstimate(up[1].content, up[1].encoding) > config.upload.maxSize

\* the extension of a filename as the claim words it: from the last dot of
\* the name, when that dot is not its first character
lastDot(name) ==
  LET dots == {k \in 1..Len(name) : name[k] = "."}
  IN  IF dots = {} THEN 0 ELSE CHOOSE k \in dots : \A m \in dots : m <= k
declaredExtension(name) ==
  IF lastDot(name) <= 1 THEN <<>> ELSE SubSeq(name, lastDot(name), Len(name))

\* C18: an intake that passes validation and succeeds adds to the temporary
\* storage exactly one directory, which did not exist, and exactly one file,
\* inside it, named "upload" plus the filename's extension (".txt" when it has
\* none), written from the content decoded as the declared encoding says.
C18_IntakeMaterializesOneFile ==
  [][\A i \in DOMAIN up :
       (up[i].pc = "called" /\ up'[i].tmpDir # <<>>) =>
         LET dir == up'[i].tmpDir[1]
             file == up'[i].tmpFile[1]
             ext == IF declaredExtension(up[i].filename) = <<>>
                    THEN <<".", "t", "x", "t">>
                    ELSE declaredExtension(up[i].filename)
         IN  /\ tmpfs' \ tmpfs = {dir, file}
             /\ tmpfs \subseteq tmpfs'
             /\ dir \notin tmpfs
             /\ dir.file = <<>> /\ file.file # <<>>
             /\ file.owner = dir.owner /\ file.id = dir.id
             /\ file.file = <<"u", "p", "l", "o", "a", "d">> \o ext
             /\ up'[i].created = {dir, file}
             /\ up'[i].wrote = IF up[i].encoding = "base64"
                               THEN "Buffer.from(content, base64)"
                               ELSE "content as utf-8"]_vars

\* C18 witness: a filename without extension, sent as text, is on disk as
\* upload.txt in its own directory.
C18_Witness ==
  /\ up[1].filename = <<"a">>
  /\ up[1].wrote = "content as utf-8"
  /\ up[1].tmpFile # <<>>
  /\ up[1].tmpFile[1].file = <<"u", "p", "l", "o", "a", "d", ".", "t", "x", "t">>
  /\ {up[1].tmpDir[1], up[1].tmpFile[1]} \subseteq tmpfs
  /\ Leftover \subseteq tmpfs
  /\ up[1].tmpDir[1] \notin Leftover

IntakeErrors == {"extension blocked", "size over maximum", "save failed"}

\* C19: no invocation ends by throwing; whichever stage raised (validation,
\* saveUploadedFile, a renderer without fallback, executePrintJob), the
\* invocation has returned a failure text from the catch block that carries
\* that stage's error message.
C19_ErrorsCaughtAndReported ==
  \A i \in DOMAIN up :
    /\ up[i].result.kind \in {"none", "printed", "confirmation", "failed"}
    /\ up[i].result.kind = "failed" => (returned(i) /\ up[i].result.via = "catch")
    /\ (up[i].pc \notin {"idle", "called"} /\ up[i].tmpDir = <<>>)
         => /\ returned(i) /\ up[i].result.kind = "failed"
            /\ up[i].result.error \in IntakeErrors
            /\ up[i].result.error = "save failed"
                 <=> (called(i, "mkdtempSync") /\ up[i].wrote = "nothing")
    /\ (up[i].renderFailed /\ ~config.fallbackOnRenderError)
         => /\ returned(i) /\ up[i].result.kind = "failed"
            /\ up[i].result.error = "render failed"
    /\ up[i].printOutcome = "failed"
         => /\ returned(i) /\ up[i].result.kind = "failed"
            /\ up[i].result.error = "print failed"

\* C19 witness: executePrintJob failed after a rendering, and the failure text
\* with its message was returned.
C19_Witness ==
  /\ returned(1)
  /\ up[1].printOutcome = "failed"
  /\ up[1].renderedPdf # <<>>
  /\ up[1].result = [noResult EXCEPT !.kind = "failed", !.via = "catch",
                                     !.error = "print failed"]

(***************************************************************************)
(* Claims on the two forms of a path.                                      *)
(***************************************************************************)
\* the denied roots other than the filesystem root
properDeniedRoots ==
  {config.deniedPaths[k] : k \in {n \in 1..Len(config.deniedPaths) :
                                     componentsOf(resolve(config.deniedPaths[n])) # <<>>}}

\* C20: a path whose absolute form or whose real form equals a denied root, or
\* is nested under one, is rejected (stated for the denied roots other than
\* the filesystem root).
C20_DeniedOnEitherForm ==
  ( /\ evaluated
    /\ \E root \in properDeniedRoots :
         \/ equalsOrNestedUnder(originalForm, root)
         \/ equalsOrNestedUnder(realForm, root) )
    => policy.decision # "Allowed"

\* the path leads out of the allowed tree: absolute form under an allowed
\* root, real form under none
leadsOut ==
  /\ evaluated
  /\ underSome(originalForm, config.allowedPaths)
  /\ ~underSome(realForm, config.allowedPaths)

\* C21 as claimed: a path that leads out of the allowed tree is rejected with
\* the outside-allowlist denial.
C21_LeadsOutIsOutsideAllowlist ==
  leadsOut => policy.decision = "OutsideAllowlist"

\* C21 amended: a path that leads out of the allowed tree is never accepted;
\* the denial is outside-allowlist when neither form has a hidden component
\* and the real form is under no denied root, and the hidden or the
\* denied-ancestor denial otherwise.
C21_LeadsOutIsRejected ==
  leadsOut =>
    /\ policy.decision # "Allowed"
    /\ IF hasHiddenComponent(originalForm) \/ hasHiddenComponent(realForm)
       THEN policy.decision \in HiddenDenials
       ELSE IF underSome(realForm, config.deniedPaths)
       THEN policy.decision \in {"DeniedAncestor", "OutsideAllowlist"}
       ELSE policy.decision = "OutsideAllowlist"

\* C21 witness: a symlink under an allowed root leads to a visible directory
\* under no allowed and no denied root, and the path got outside-allowlist.
C21_Witness ==
  /\ leadsOut
  /\ originalForm # realForm
  /\ ~hasHiddenComponent(realForm)
  /\ ~underSome(realForm, config.deniedPaths)
  /\ policy.decision = "OutsideAllowlist"

hiddenEitherForm == hasHiddenComponent(originalForm) \/ hasHiddenComponent(realForm)

\* C22: the reported reason follows the precedence hidden component > denied
\* ancestor > outside allowlist: a path that is hidden and under a denied root
\* is reported as hidden, and a path that is under a denied root and outside
\* every allowed root is reported as denied ancestor.
C22_ReasonPrecedence ==
  evaluated =>
    /\ (hiddenEitherForm /\ underSome(realForm, config.deniedPaths))
         => policy.decision \in HiddenDenials
    /\ ( /\ ~hiddenEitherForm
         /\ underSome(realForm, config.deniedPaths)
         /\ ~underSome(realForm, config.allowedPaths) )
         => policy.decision = "DeniedAncestor"

resolutionFailed == evaluated /\ realpathSync(originalForm) = Unresolved

\* C23: when symlink resolution fails, the absolute form serves as real form
\* and the call does not fail for that reason: a path that does not resolve,
\* has no hidden component, is under an allowed root and under no denied root
\* is allowed.
C23_UnresolvedJudgedOnAbsoluteForm ==
  resolutionFailed =>
    /\ realForm = originalForm
    /\ ( /\ ~hasHiddenComponent(originalForm)
         /\ underSome(originalForm, config.allowedPaths)
         /\ ~underSome(originalForm, config.deniedPaths) )
         => policy.decision = "Allowed"

prepared(i) == up[i].tmpFile # <<>>
recognizedMarkdown(name) ==
  LET e == declaredExtension(name) IN
  /\ e # <<>>
  /\ toLowerCase(SubSeq(e, 2, Len(e))) \in
       {<<"m", "d">>, <<"m", "a", "r", "k", "d", "o", "w", "n">>}
markdownChosen(i) ==
  LET f == up[i].force_markdown_render
      md == recognizedMarkdown(up[i].tmpFile[1].file)
  IN  IF f = "true" THEN md
      ELSE IF f = "false" THEN FALSE
      ELSE config.autoRenderMarkdown /\ md
rendererCalls(i) ==
  {k \in 1..Len(up[i].log) : up[i].log[k] \in {"renderMarkdownToPdf", "renderCodeToPdf"}}

C27_CodeDecision ==
  \A i \in DOMAIN up :
    (prepared(i) /\ ~markdownChosen(i)) =>
      /\ up[i].force_code_render = "true" =>
           (called(i, "renderCodeToPdf") /\ ~called(i, "shouldRenderCode"))
      /\ up[i].force_code_render = "false" =>
           (~called(i, "renderCodeToPdf") /\ ~called(i, "shouldRenderCode"))
      /\ up[i].force_code_render = "undefined" =>
           /\ called(i, "shouldRenderCode")
           /\ up[i].pc # "awaitShouldRenderCode" =>
                (called(i, "renderCodeToPdf") <=> up[i].shouldRenderCodeAnswer = "yes")

C27_Witness ==
  \E i \in DOMAIN up :
    /\ prepared(i) /\ returned(i) /\ ~markdownChosen(i)
    /\ up[i].force_code_render = "undefined"
    /\ up[i].shouldRenderCodeAnswer = "yes"
    /\ called(i, "renderCodeToPdf")
    /\ up[i].renderedPdf # <<>>

(***************************************************************************)
(* The confirmation gate on an unreadable page count, and the dispatch.    *)
(***************************************************************************)
pageCountFailed(i) ==
  /\ called(i, "getPdfPageCount")
  /\ up[i].pc # "awaitPageCount"
  /\ up[i].pdfPages = <<>>

\* C28: with skip_confirmation not set and a threshold above 0, a page count
\* that cannot be read makes the gate proceed: executePrintJob is called with
\* every artifact of the invocation still in the temporary storage, and the
\* invocation does not end in the confirmation notice.
C28_UnreadablePageCountProceeds ==
  \A i \in DOMAIN up :
    pageCountFailed(i) =>
      /\ up[i].skip_confirmation # "true" /\ config.confirmIfOverPages > 0
      /\ called(i, "executePrintJob")
      /\ up[i].result.kind # "confirmation"
      /\ up[i].pc = "awaitPrint" => up[i].created \subseteq tmpfs

C28_Witness ==
  \E i \in DOMAIN up :
    /\ pageCountFailed(i)
    /\ up[i].skip_confirmation = "undefined"
    /\ up[i].pc = "awaitPrint" /\ up[i].submitted
    /\ up[i].renderedPdf # <<>>
    /\ uploadEntries(up[i]) \cup renderedEntries(up[i]) \subseteq tmpfs
    /\ jobsOf(i) # {}

submissions(i) == {k \in 1..Len(up[i].log) : up[i].log[k] = "executePrintJob"}
stageOf(call) ==
  CASE call \in {"mkdtempSync"} -> 1
    [] call \in {"writeFileSync"} -> 2
    [] call \in {"shouldRenderCode"} -> 3
    [] call \in {"renderMarkdownToPdf", "renderCodeToPdf"} -> 4
    [] call \in {"getPdfPageCount"} -> 5
    [] call \in {"executePrintJob"} -> 6
    [] OTHER -> 7
gateProceeded(i) ==
  \/ gateOff(i)
  \/ pageCountFailed(i)
  \/ /\ up[i].pdfPages # <<>>
     /\ sheetsFor(up[i].pdfPages[1], up[i].options) <= config.confirmIfOverPages

\* C29: an invocation calls executePrintJob at most once, also after it
\* failed, and only after validation passed, the upload was written, the
\* rendering gate returned and the confirmation gate proceeded, in this
\* order; the path submitted is the rendered artifact when there is one and
\* the uploaded file otherwise.
C29_SingleOrderedSubmission ==
  \A i \in DOMAIN up :
    /\ Cardinality(submissions(i)) <= 1
    /\ Cardinality({k \in 1..Len(printJobs) : printJobs[k].inv = i}) <= 1
    /\ up[i].printOutcome = "failed" => (returned(i) /\ up[i].result.kind = "failed")
    /\ \A k \in submissions(i) :
         /\ ~extensionBlocked(up[i].filename)
         /\ prepared(i) /\ up[i].wrote # "nothing"
         /\ \E m \in 1..(k - 1) : up[i].log[m] = "writeFileSync"
         /\ \A m \in 1..(k - 1) : \A n \in (m + 1)..k :
              stageOf(up[i].log[m]) < stageOf(up[i].log[n])
         /\ called(i, "shouldRenderCode") => up[i].shouldRenderCodeAnswer # "none"
         /\ up[i].renderedPdf = <<>> =>
              (up[i].renderFailed \/ Cardinality(rendererCalls(i)) = 0)
         /\ gateProceeded(i)
    /\ \A job \in jobsOf(i) :
         job.path = IF up[i].renderedPdf # <<>> THEN up[i].renderedPdf[1]
                    ELSE up[i].tmpFile[1]

C29_Witness ==
  \E i \in DOMAIN up :
    /\ returned(i) /\ up[i].result.kind = "printed"
    /\ called(i, "renderCodeToPdf") /\ up[i].renderedPdf # <<>>
    /\ called(i, "getPdfPageCount") /\ up[i].pdfPages # <<>>
    /\ \E job \in jobsOf(i) : job.path = up[i].renderedPdf[1]

(***************************************************************************)
(* The session registry of the streaming service.                          *)
(***************************************************************************)
gone(c) == conn[c].closed \/ conn[c].pc = "failed"

\* C30: every identifier in the registry maps to the transport of a
\* connection that was given this identifier, is still open and whose connect
\* step has not failed; once a connection is closed or its connect step has
\* failed, its transport is registered nowhere and its identifier (generated
\* for that connection only) is absent, in every order of close, connect
\* completion and connect failure.
C30_RegistryHoldsLiveSessions ==
  /\ \A id \in SessionIds :
       activeTransports[id] # NoTransport =>
         LET c == activeTransports[id] IN
         /\ c \in Conns
         /\ conn[c].sessionId = id
         /\ ~conn[c].closed
         /\ conn[c].pc \in {"connecting", "connected"}
  /\ \A c \in Conns :
       gone(c) =>
         /\ \A id \in SessionIds : activeTransports[id] # c
         /\ ownIdentifier(c) => ~registered(conn[c].sessionId)

C30_Witness ==
  /\ conn[1].closed /\ conn[1].pc = "failed"
  /\ conn[2].pc = "connected" /\ ~conn[2].closed
  /\ conn[1].sessionId # conn[2].sessionId
  /\ ~registered(conn[1].sessionId)
  /\ activeTransports[conn[2].sessionId] = 2

\* C31: a new connection is in the registry under its identifier in the very
\* step that generates the identifier, before the identifier is disclosed and
\* before the connect step begins; until then it has no identifier, no
\* registry entry and no message, and a message is handed only to a transport
\* that is registered under the identifier the message carries.
C31_RegisteredBeforeUsable ==
  [][\A c \in Conns :
       /\ conn[c].pc = "new" =>
            /\ conn[c].sessionId = 0 /\ conn[c].received = {}
            /\ \A id \in SessionIds : activeTransports[id] # c
       /\ (conn[c].pc = "new" /\ conn'[c].pc # "new") =>
            /\ conn'[c].pc = "connecting"
            /\ conn'[c].sessionId \in SessionIds
            /\ activeTransports'[conn'[c].sessionId] = c
       /\ (conn'[c].pc = "connected" /\ conn[c].pc # "connected") =>
            conn[c].pc = "connecting"
       /\ conn'[c].received # conn[c].received =>
            \E h \in SessionIds :
              /\ activeTransports[h] = c
              /\ conn'[c].received = conn[c].received \cup {h}]_vars

C31_Witness ==
  /\ conn[1].pc = "connecting" /\ ~conn[1].closed
  /\ activeTransports[conn[1].sessionId] = 1
  /\ conn[1].received # {}
  /\ conn[2].pc = "new"
  /\ posts.status = 404 /\ posts.header \in SessionIds

\* C32: no two connections, concurrent or successive, are given the same
\* identifier, and a registration never replaces the entry of a live session.
C32_IdentifiersUnique ==
  [][/\ \A a \in Conns, b \in Conns :
          (a # b /\ conn'[a].pc # "new" /\ conn'[b].pc # "new")
            => conn'[a].sessionId # conn'[b].sessionId
     /\ \A id \in SessionIds :
          (activeTransports[id] # NoTransport /\ activeTransports'[id] # NoTransport)
            => activeTransports'[id] = activeTransports[id]]_vars

leaves(a) ==
  \/ conn'[a].closed /\ ~conn[a].closed
  \/ conn'[a].pc = "failed" /\ conn[a].pc # "failed"

\* C33: the close of session A, or the failure of A's connect step, leaves
\* the registry entry of every other live session B as it was, and a message
\* carrying B's identifier is still handed to B's transport.
C33_OtherSessionsUntouched ==
  [][\A a \in Conns, b \in Conns :
       (a # b /\ leaves(a) /\ ~conn[b].closed /\ conn[b].sessionId \in SessionIds
          /\ activeTransports[conn[b].sessionId] = b)
         => /\ activeTransports'[conn[b].sessionId] = b
            /\ conn'[b] = conn[b]]_vars

(***************************************************************************)
(* SpecConcurrent: several upload_and_print invocations whose steps         *)
(* interleave at their awaits, on one temporary storage.                   *)
(***************************************************************************)
NumInvocations == 2

ConcurrentRequests ==
  { request(f, SmallContent, "base64", FirstTarget, <<>>, "undefined", "undefined",
            "undefined") :
      f \in {<<"a", ".", "m", "d">>, <<"a", ".", "p", "d", "f">>} }
ConcurrentConfig ==
  [BaseConfig EXCEPT !.confirmIfOverPages = 2, !.autoRenderMarkdown = TRUE,
                     !.fallbackOnRenderError = FALSE]

InitConcurrent ==
  /\ config = ConcurrentConfig
  /\ fsNodes = Tree /\ links = NoLinks
  /\ policy = policyIdle
  /\ PrintInitIdle
  /\ up = [i \in 1..NumInvocations |-> upIdle] /\ tmpfs = {} /\ printJobs = <<>>
  /\ HttpInitIdle /\ CallsInitIdle

NextConcurrent ==
  \/ \E i \in DOMAIN up, req \in ConcurrentRequests :
       \* invocations are numbered as they arrive
       /\ IF i = 1 THEN TRUE ELSE up[i - 1].pc # "idle"
       /\ UploadCall(i, req)
  \/ \E i \in DOMAIN up : UploadIntake(i, TRUE, TRUE)
  \/ \E i \in DOMAIN up : ShouldRenderCodeDone(i, TRUE)
  \/ \E i \in DOMAIN up, ok \in BOOLEAN : RenderMarkdownDone(i, ok, NoFault, NoFault)
  \/ \E i \in DOMAIN up : RenderCodeDone(i, TRUE, NoFault, NoFault)
  \/ \E i \in DOMAIN up, pdfPages \in {-1, MaxPages} :
       PageCountDone(i, pdfPages, NoFault, NoFault)
  \/ \E i \in DOMAIN up, ok \in BOOLEAN : PrintDone(i, ok, NoFault, NoFault)

SpecConcurrent == InitConcurrent /\ [][NextConcurrent]_vars

InFlight == {"awaitShouldRenderCode", "awaitRenderMd", "awaitRenderCode",
             "awaitPageCount", "awaitPrint"}
artifactsOf(u) == uploadEntries(u) \cup renderedEntries(u)

\* C34: invocations in flight at the same time hold disjoint temporary
\* directories and artifacts, all present in the storage; a step of one
\* invocation deletes only that invocation's artifacts, submits only one of
\* them, and leaves what every other invocation in flight needs.
C34_InvocationsIsolated ==
  [][/\ \A i \in DOMAIN up, j \in DOMAIN up :
          (i # j /\ up'[i].pc \in InFlight /\ up'[j].pc \in InFlight)
            => /\ artifactsOf(up'[i]) \cap artifactsOf(up'[j]) = {}
               /\ artifactsOf(up'[i]) \subseteq tmpfs'
     /\ \A i \in DOMAIN up :
          up'[i] # up[i] =>
            /\ (tmpfs \ tmpfs') \subseteq artifactsOf(up[i])
            /\ artifactsOf(up'[i]) \ artifactsOf(up[i]) \subseteq (tmpfs' \ tmpfs)
            /\ Len(printJobs') > Len(printJobs) =>
                 /\ printJobs'[Len(printJobs')].inv = i
                 /\ printJobs'[Len(printJobs')].path \in artifactsOf(up'[i])
                 /\ printJobs'[Len(printJobs')].path \in tmpfs']_vars

C34_Witness ==
  /\ up[1].pc = "returned" /\ up[1].result.kind = "printed"
  /\ up[1].created # {} /\ up[1].created \cap tmpfs = {}
  /\ up[2].pc = "awaitPrint" /\ up[2].renderedPdf # <<>>
  /\ up[2].tmpDir[1].id # up[1].tmpDir[1].id
  /\ artifactsOf(up[2]) \subseteq tmpfs

(***************************************************************************)
(* print_file: the printer named to lpr, and the existence check.          *)
(***************************************************************************)
lprReached == pf.pc = "awaitLpr" \/ (pf.pc = "returned" /\ pf.result.kind \in {"sent", "failed"})
claimedPrinter ==
  IF pf.printer # "" THEN <<pf.printer>>
  ELSE IF config.defaultPrinter # "" THEN <<config.defaultPrinter>>
  ELSE <<>>

\* C35: lpr is given the requested printer when there is one, else the
\* configured default printer when there is one, else no printer at all; a
\* configured default never replaces a requested printer.
C35_TargetPrinter ==
  /\ lprReached => lprCalls # {}
  /\ \A call \in lprCalls :
       /\ call.P = claimedPrinter
       /\ (pf.printer # "" /\ config.defaultPrinter # "") => call.P = <<pf.printer>>
  /\ (pf.pc = "returned" /\ pf.result.kind = "sent") =>
       pf.result.printer = IF claimedPrinter = <<>> THEN "default printer"
                           ELSE claimedPrinter[1]

C35_Witness ==
  /\ pf.pc = "returned" /\ pf.result.kind = "sent"
  /\ pf.printer = "hp" /\ config.defaultPrinter = "dflt"
  /\ \E call \in lprCalls : call.P = <<"hp">>

\* C36: what prepareUploadedFileForPrinting hands back is coherent: either
\* there is a rendered artifact, the final path is that artifact and the
\* render kind is not empty, or there is none, the final path is the uploaded
\* file and the render kind is empty.
C36_PrepareResultCoherent ==
  \A i \in DOMAIN up :
    prepared(i) =>
      \/ /\ up[i].renderedPdf # <<>>
         /\ up[i].actualFilePath = up[i].renderedPdf
         /\ up[i].renderType # ""
      \/ /\ up[i].renderedPdf = <<>>
         /\ up[i].actualFilePath = up[i].tmpFile
         /\ up[i].renderType = ""

C36_Witness ==
  \E i \in DOMAIN up :
    /\ prepared(i) /\ up[i].pc = "awaitPrint"
    /\ up[i].renderedPdf # <<>>
    /\ up[i].actualFilePath = up[i].renderedPdf
    /\ up[i].renderType = "markdown -> PDF"

fileMissing ==
  pf.file_path = <<>> \/ realpathSync(resolve(pf.file_path)) = Unresolved

\* C37: print_file asked for a file that does not exist answers "File not
\* found" and calls lpr for nothing; the existence check comes first, so also
\* a copy count over the maximum is answered "File not found".
C37_MissingFileNotPrinted ==
  /\ (pf.pc \notin {"idle", "awaitExists"} /\ fileMissing) =>
       /\ pf.pc = "returned"
       /\ pf.result.kind = "notFound"
       /\ lprCalls = {}
  /\ pf.result.kind = "notFound" => (fileMissing /\ lprCalls = {})

C37_Witness ==
  /\ pf.pc = "returned" /\ fileMissing
  /\ pf.file_path # <<>>
  /\ overConfiguredMaximum
  /\ pf.result.kind = "notFound" /\ lprCalls = {}

(***************************************************************************)
(* SpecCupsArgs: getCupsServerArgs and getCupsServerDisplay called         *)
(* directly, under every configured server and port.                       *)
(***************************************************************************)
PortSpread == 3

CupsServers == {"", "cups", "10.0.0.1", "print.lan"}
CupsPorts == (DEFAULT_CUPS_PORT - PortSpread)..(DEFAULT_CUPS_PORT + PortSpread)

calledFn(fn) == \E k \in 1..Len(calls) : calls[k].fn = fn

GetCupsServerArgsCall ==
  /\ ~calledFn("getCupsServerArgs")
  /\ calls' = Append(calls, [fn |-> "getCupsServerArgs", result |-> getCupsServerArgs])
  /\ UNCHANGED <<EnvVars, PolicyVars, PrintVars, UploadVars, HttpVars>>

GetCupsServerDisplayCall ==
  /\ ~calledFn("getCupsServerDisplay")
  /\ calls' = Append(calls, [fn |-> "getCupsServerDisplay", result |-> getCupsServerDisplay])
  /\ UNCHANGED <<EnvVars, PolicyVars, PrintVars, UploadVars, HttpVars>>

InitCupsArgs ==
  /\ \E s \in CupsServers, p \in CupsPorts :
       config = [BaseConfig EXCEPT !.cupsServer = s, !.cupsPort = p]
  /\ fsNodes = Tree /\ links = NoLinks
  /\ policy = policyIdle
  /\ PrintInitIdle /\ UploadInitIdle /\ HttpInitIdle
  /\ calls = <<>>

NextCupsArgs == GetCupsServerArgsCall \/ GetCupsServerDisplayCall

SpecCupsArgs == InitCupsArgs /\ [][NextCupsArgs]_vars

serverArgsCalls == {k \in 1..Len(calls) : calls[k].fn = "getCupsServerArgs"}

====
